-------------------------- MODULE Spec2Model --------------------------
(*
  A model of HTMLBooks' MiniBrowser (src/main.cpp): the site root, the
  search box and its scope, the results list, the status bar, the message
  boxes, and the recursive HTML finder with the per-file substring search.

  Text is a tuple of one-character strings, so that letter case, trimming,
  wildcard matching and name order are computed and not assumed.  A path is
  the tuple of the names leading from the process's working directory to
  the entry.

  Left out: the tool bar's Back/Forward/Stop/Reload (the web view's own
  slots), onPrint (its body is commented out in the source), the
  text-to-speech handlers and onUrlChanged.  The texts of the search box,
  the scope box and the path box are inputs of the handler that reads them.
  The find-in-page engine is modelled by what onSearch asks of it: a plain
  substring search of the page's text under the flags passed, answered
  later through the callback.
*)
EXTENDS Integers, Sequences, FiniteSets, TLC

-----------------------------------------------------------------------
(* Characters *)

\* The characters the model's names and texts are written in, in the order
\* of their code points (space, '.', upper case, lower case): the order
\* QString::compare uses.
Charset ==
    << " ", ".", "A", "B", "C", "H", "L", "M", "T",
       "a", "b", "c", "d", "e", "g", "h", "i", "k", "l", "m", "n", "o",
       "p", "q", "r", "s", "t", "u", "x", "z" >>

Code(c) == CHOOSE i \in 1..Len(Charset) : Charset[i] = c

\* QChar::toLower on the characters above.
LowerOf ==
    ("A" :> "a") @@ ("B" :> "b") @@ ("C" :> "c") @@ ("H" :> "h") @@
    ("L" :> "l") @@ ("M" :> "m") @@ ("T" :> "t")

ToLowerCh(c) == IF c \in DOMAIN LowerOf THEN LowerOf[c] ELSE c

ToLower(s) == [i \in 1..Len(s) |-> ToLowerCh(s[i])]

\* QString::compare(a, b) < 0: code point by code point, a proper prefix first.
StrLess(a, b) ==
    \E k \in 1..(Len(b)) :
        /\ \A j \in 1..(k-1) : j <= Len(a) /\ a[j] = b[j]
        /\ \/ Len(a) = k - 1
           \/ Len(a) >= k /\ Code(a[k]) < Code(b[k])

\* QString::trimmed: white space removed from both ends.
RECURSIVE TrimLeft(_)
TrimLeft(s) == IF s # << >> /\ Head(s) = " " THEN TrimLeft(Tail(s)) ELSE s

RECURSIVE TrimRight(_)
TrimRight(s) ==
    IF s # << >> /\ s[Len(s)] = " " THEN TrimRight(SubSeq(s, 1, Len(s) - 1)) ELSE s

\* The text taken as it is.
notTrimmed(s) == s

trimmed(s) == TrimRight(TrimLeft(s))

\* QString::contains(term, cs): term occurs as a contiguous run of hay.
containsAt(hay, term, i) == SubSeq(hay, i, i + Len(term) - 1) = term

\* A match at the first character only (startsWith).
containsAtStart(hay, term, caseSensitive) ==
    LET h == IF caseSensitive THEN hay ELSE ToLower(hay)
        t == IF caseSensitive THEN term ELSE ToLower(term)
    IN  Len(h) >= Len(t) /\ containsAt(h, t, 1)

contains(hay, term, caseSensitive) ==
    LET h == IF caseSensitive THEN hay ELSE ToLower(hay)
        t == IF caseSensitive THEN term ELSE ToLower(term)
    IN  \E i \in 1..(Len(h) - Len(t) + 1) : containsAt(h, t, i)

\* A name filter such as "*.html": QDir matches name filters without regard
\* to letter case; the pattern is a '*' followed by a literal suffix.
wildcardMatch(name, suffix) ==
    /\ Len(name) >= Len(suffix)
    /\ ToLower(SubSeq(name, Len(name) - Len(suffix) + 1, Len(name))) = ToLower(suffix)


-----------------------------------------------------------------------
(* The file system the program runs on *)

\* How many symbolic links the platform follows while it resolves one path
\* before it gives up (ELOOP).  The program sets no limit of its own.
MaxSymLinks == 2

Dir(nm, par, rd)       == [name |-> nm, parent |-> par, kind |-> "dir",
                           target |-> 0, readable |-> rd, text |-> << >>]
File(nm, par, rd, txt) == [name |-> nm, parent |-> par, kind |-> "file",
                           target |-> 0, readable |-> rd, text |-> txt]
Link(nm, par, tgt)     == [name |-> nm, parent |-> par, kind |-> "link",
                           target |-> tgt, readable |-> TRUE, text |-> << >>]

\* Names and texts.
nBook   == << "b", "o", "o", "k" >>
nIndex  == << "i", "n", "d", "e", "x", ".", "h", "t", "m", "l" >>
nAHtml  == << "a", ".", "h", "t", "m", "l" >>
nBHtm   == << "b", ".", "h", "t", "m" >>
nCTxt   == << "c", ".", "t", "x", "t" >>
nXHtml  == << "x", ".", "h", "t", "m", "l" >>
nZHtm   == << "z", ".", "h", "t", "m" >>
nSHtml  == << "s", ".", "h", "t", "m", "l" >>
nPHtml  == << "p", ".", "h", "t", "m", "l" >>
nQHtml  == << "q", ".", "h", "t", "m", "l" >>
nNHtml  == << "n", ".", "h", "t", "m", "l" >>
nRHtml  == << "r", ".", "h", "t", "m", "l" >>
nDotH   == << ".", "h", ".", "h", "t", "m", "l" >>
nUpper  == << "B", ".", "H", "T", "M" >>
nD      == << "d" >>
nE      == << "e" >>
nK      == << "k" >>
nL      == << "l" >>
nM      == << "m" >>
nO      == << "o" >>
nR      == << "r" >>
nUp     == << "u", "p" >>
tCat    == << "a", " ", "C", "a", "t" >>
tCAT    == << "C", "A", "T" >>
tcat    == << "c", "a", "t" >>
tDog    == << "d", "o", "g" >>

\* A file system is the tuple of its entries; entry 1 is the working
\* directory the program was started in (QDir::currentPath()).
Cwd == Dir(<< >>, 0, TRUE)

\* HTML files nested one, two and three directories deep, and a text file.
FsNested ==
    << Cwd,
       Dir(nBook, 1, TRUE),
       File(nIndex, 2, TRUE, tCat),
       File(nBHtm, 2, TRUE, tDog),
       File(nCTxt, 2, TRUE, tcat),
       Dir(nD, 2, TRUE),
       File(nAHtml, 6, TRUE, tcat),
       Dir(nE, 6, TRUE),
       File(nZHtm, 8, TRUE, tCAT) >>

\* A symbolic link to a sibling directory and a symbolic link to a file.
FsLinks ==
    << Cwd,
       Dir(nBook, 1, TRUE),
       File(nAHtml, 2, TRUE, tcat),
       Dir(nR, 2, TRUE),
       File(nXHtml, 4, TRUE, tCat),
       Link(nL, 2, 4),
       Link(nSHtml, 2, 3) >>

\* A directory entry that is a symbolic link to an ancestor.
FsCycle ==
    << Cwd,
       Dir(nBook, 1, TRUE),
       Dir(nM, 2, TRUE),
       File(nPHtml, 3, TRUE, tcat),
       Link(nUp, 3, 2) >>

\* An unreadable directory, an unreadable file, a hidden file, an
\* upper-case name, and no index file.
FsLocked ==
    << Cwd,
       Dir(nBook, 1, TRUE),
       Dir(nK, 2, FALSE),
       File(nQHtml, 3, TRUE, tcat),
       File(nAHtml, 2, FALSE, tcat),
       File(nNHtml, 2, TRUE, tCat),
       Dir(nO, 2, TRUE),
       File(nRHtml, 7, TRUE, tDog),
       File(nDotH, 2, TRUE, tcat),
       File(nUpper, 2, TRUE, tCAT),
       File(nXHtml, 2, TRUE, tDog) >>

\* No ./book directory at all: the initial site root does not exist.
FsNoBook ==
    << Cwd,
       Dir(nD, 1, TRUE),
       File(nAHtml, 2, TRUE, tcat),
       File(nCTxt, 2, TRUE, tDog) >>

FileSystems == { FsNested, FsLinks, FsCycle, FsLocked, FsNoBook }

\* The entries of directory d named nm.
Child(f, d, nm) == { c \in DOMAIN f : f[c].parent = d /\ f[c].name = nm }

\* Follow the symbolic link chain that starts at entry id, n links having
\* been followed already.
RECURSIVE Follow(_, _, _)
Follow(f, id, n) ==
    IF f[id].kind # "link" THEN [at |-> {id}, links |-> n]
    ELSE IF n + 1 > MaxSymLinks THEN [at |-> {}, links |-> n]
    ELSE Follow(f, f[id].target, n + 1)

\* Resolve the names of rest from directory d on; the entry reached, or
\* nothing.  The last name is followed if it is a link only when followLast.
RECURSIVE Walk(_, _, _, _, _)
Walk(f, d, rest, n, followLast) ==
    IF rest = << >> THEN {d}
    ELSE IF Child(f, d, Head(rest)) = {} THEN {}
    ELSE LET c == CHOOSE x \in Child(f, d, Head(rest)) : TRUE
             r == Follow(f, c, n)
         IN  IF Tail(rest) = << >> /\ ~followLast THEN {c}
             ELSE IF r.at = {} THEN {}
             ELSE LET t == CHOOSE x \in r.at : TRUE
                  IN  IF Tail(rest) = << >> THEN {t}
                      ELSE IF f[t].kind = "dir" /\ f[t].readable
                           THEN Walk(f, t, Tail(rest), r.links, followLast)
                           ELSE {}

stat(f, path)  == Walk(f, 1, path, 0, TRUE)
lstat(f, path) == Walk(f, 1, path, 0, FALSE)

\* QFileInfo / QFile queries.
exists(f, path)    == stat(f, path) # {}
isDir(f, path)     == \E t \in stat(f, path) : f[t].kind = "dir"
isFile(f, path)    == \E t \in stat(f, path) : f[t].kind = "file"
isSymLink(f, path) == \E t \in lstat(f, path) : f[t].kind = "link"
isHidden(path)     == path # << >> /\ path[Len(path)] # << >> /\ path[Len(path)][1] = "."
fileName(path)     == path[Len(path)]
absolutePath(path) == SubSeq(path, 1, Len(path) - 1)

\* QFile::open(ReadOnly | Text) succeeds.
canOpen(f, path) == \E t \in stat(f, path) : f[t].kind = "file" /\ f[t].readable

\* QTextStream::readAll of an opened file.
readAll(f, path) == f[CHOOSE t \in stat(f, path) : TRUE].text

\* The names a directory listing (opendir/readdir) of path yields.
listing(f, path) ==
    { f[c].name : c \in { x \in DOMAIN f :
          \E d \in stat(f, path) :
              f[d].kind = "dir" /\ f[d].readable /\ f[x].parent = d } }

\* Sorting by QDir::Name, with QDir::IgnoreCase when ignoreCase.
sortKey(nm, ignoreCase) == IF ignoreCase THEN ToLower(nm) ELSE nm

\* The same order reversed (QDir::Reversed).
RECURSIVE sortReversed(_, _)
sortReversed(names, ignoreCase) ==
    IF names = {} THEN << >>
    ELSE LET last == CHOOSE x \in names : \A y \in names \ {x} :
                         ~StrLess(sortKey(y, ignoreCase), sortKey(x, ignoreCase))
         IN  sortReversed(names \ {last}, ignoreCase) \o << last >>

RECURSIVE sortByName(_, _)
sortByName(names, ignoreCase) ==
    IF names = {} THEN << >>
    ELSE LET first == CHOOSE x \in names : \A y \in names \ {x} :
                          ~StrLess(sortKey(y, ignoreCase), sortKey(x, ignoreCase))
         IN  << first >> \o sortByName(names \ {first}, ignoreCase)

\* QDir(path).entryInfoList(nameFilters, filters, sort): hidden entries are
\* left out (no QDir::Hidden), as are entries whose stat fails (no
\* QDir::System).  A QDir sorts by Name | IgnoreCase unless told otherwise.
entryInfoList(f, path, nameFilters, filters, ignoreCase) ==
    LET keep(nm) ==
            /\ ~isHidden(<< nm >>)
            /\ "NoSymLinks" \in filters => ~isSymLink(f, path \o << nm >>)
            /\ \/ "Dirs" \in filters /\ isDir(f, path \o << nm >>)
               \/ "Files" \in filters /\ isFile(f, path \o << nm >>)
            /\ nameFilters # {} => \E w \in nameFilters : wildcardMatch(nm, w)
        sorted == sortByName({ nm \in listing(f, path) : keep(nm) }, ignoreCase)
    IN  [i \in 1..Len(sorted) |-> path \o << sorted[i] >>]

\* filters << "*.html" << "*.htm"
htmlFilters == { << ".", "h", "t", "m", "l" >>, << ".", "h", "t", "m" >> }

\* dir.entryInfoList(QDir::Dirs | QDir::NoDotAndDotDot)
subDirs(f, dirPath) ==
    entryInfoList(f, dirPath, {}, { "Dirs", "NoDotAndDotDot" }, TRUE)

\* dir.entryInfoList(filters, QDir::Files | QDir::NoSymLinks, QDir::Name)
htmlFiles(f, dirPath) ==
    entryInfoList(f, dirPath, htmlFilters, { "Files", "NoSymLinks" }, FALSE)

RECURSIVE recursiveFindHtml(_, _)
RECURSIVE findInEach(_, _)

\* The loop over the sub-directories left at the first one that cannot be
\* listed.
RECURSIVE findUntilUnlisted(_, _)
findUntilUnlisted(f, dirs) ==
    IF dirs = << >> THEN << >>
    ELSE IF listing(f, Head(dirs)) = {} THEN << >>
    ELSE recursiveFindHtml(f, Head(dirs)) \o findUntilUnlisted(f, Tail(dirs))

findInEach(f, dirs) ==
    IF dirs = << >> THEN << >>
    ELSE recursiveFindHtml(f, Head(dirs)) \o findInEach(f, Tail(dirs))

recursiveFindHtml(f, dirPath) ==
    findInEach(f, subDirs(f, dirPath)) \o htmlFiles(f, dirPath)

-----------------------------------------------------------------------
(* The window: MiniBrowser's state *)

VARIABLES
    fs,           \* the file system (never written by the program)
    siteDir,      \* QString siteDir
    indexPath,    \* QString indexPath
    resultsList,  \* the items of resultsList, in order
    status,       \* the message the status bar shows
    page,         \* the file the web view was last told to load, << >> if none
    findPending,  \* find-in-page requests whose callback has not run yet
    msgBox,       \* the message box the last handler showed
    lastOp,       \* the handler that ran last
    \* What the call of onSearch that ran last read and computed; all empty
    \* when another handler ran last.
    searchText,   \* searchEdit->text()
    scope,        \* scopeCombo->currentText()
    files,        \* the finder's output
    readLog       \* the files the loop opened and read, in order

vars == << fs, siteDir, indexPath, resultsList, status, page, findPending,
           msgBox, lastOp, searchText, scope, files, readLog >>

\* How many find-in-page requests may wait for their callback at once.
MaxPending == 1

nIndexHtm == << "i", "n", "d", "e", "x", ".", "h", "t", "m" >>
tSpace    == << " " >>
tPadCAT   == << " ", "C", "A", "T", " " >>

ScopeCurrent == "Current page"
ScopeFolder  == "All subpages (folder)"

\* What the user may type into the search box.
SearchInputs == { << >>, tSpace, tPadCAT, tDog }

\* What the user may type into the path box (its text is an input of
\* onOpenPath, not a variable): a blank, a sub-folder, a file, a path that
\* is not there.
PathInputs ==
    { << tSpace >>, << nBook, nD >>, << nBook, nBHtm >>, << nBook, nZHtm >> }

\* What the file and directory dialogs may hand back besides "" (cancelled).
FilePicks == { << nBook, nAHtml >>, << nD, nCTxt >> }
DirPicks  == { << nBook >>, << nBook, nM >> }

NoBox == [icon |-> "none", title |-> "none"]
Box(icon, title) == [icon |-> icon, title |-> title]
Msg(m, arg) == [msg |-> m, arg |-> arg]

\* QMessageBox::information(this, "Home not found", ...)
boxHomeNotFound == Box("information", "Home not found")

\* QMessageBox::warning(this, "Invalid path", ...)
boxInvalidPath == Box("warning", "Invalid path")

boxNoIndexAsWarning == Box("warning", "No index file")

\* QMessageBox::information(this, "No index file", ...)
boxNoIndex == Box("information", "No index file")

\* The text of the path box with white space removed from both ends.
trimmedPath(p) ==
    IF p = << >> THEN << >>
    ELSE LET q == [p EXCEPT ![1] = TrimLeft(@)]
             r == [q EXCEPT ![Len(q)] = TrimRight(@)]
         IN  IF r = << << >> >> THEN << >> ELSE r

\* The page the constructor loads: index.html, then index.htm over it.
startPage(f) ==
    IF exists(f, << nBook, nIndexHtm >>) THEN << nBook, nIndexHtm >>
    ELSE IF exists(f, << nBook, nIndex >>) THEN << nBook, nIndex >>
    ELSE << >>

Init ==
    /\ fs \in FileSystems
    /\ siteDir = << nBook >>
    /\ indexPath = << nBook, nIndexHtm >>
    /\ resultsList = << >>
    /\ page = startPage(fs)
    /\ status = IF startPage(fs) = << >> THEN Msg("Ready", << >>)
                ELSE Msg("Loaded", startPage(fs))
    /\ findPending = << >>
    /\ msgBox = NoBox
    /\ lastOp = "MiniBrowser"
    /\ searchText = << >>
    /\ scope = "none"
    /\ files = << >>
    /\ readLog = << >>

\* A handler other than onSearch ran: nothing of onSearch's call is left.
noSearch ==
    /\ searchText' = << >>
    /\ scope' = "none"
    /\ files' = << >>
    /\ readLog' = << >>

\* siteDir/index.html, or siteDir/index.htm when the former is not there.
indexOf(f, d) ==
    IF exists(f, d \o << nIndex >>) THEN d \o << nIndex >> ELSE d \o << nIndexHtm >>

\* loadLocal(filePath)
loadLocal(filePath) ==
    /\ page' = filePath
    /\ status' = Msg("Loaded", filePath)

\* setSiteDir(d), but for the status message, which a later loadLocal overwrites
setSiteDir(d) ==
    /\ siteDir' = d
    /\ indexPath' = d \o << nIndex >>

onHome ==
    LET idx == indexOf(fs, siteDir)
        any == entryInfoList(fs, siteDir, htmlFilters, { "Files" }, FALSE)
    IN  /\ lastOp' = "onHome"
        /\ IF exists(fs, idx)
             THEN loadLocal(idx) /\ msgBox' = NoBox
           ELSE IF any # << >>
             THEN loadLocal(any[1]) /\ msgBox' = NoBox
           ELSE /\ msgBox' = boxHomeNotFound
                /\ UNCHANGED << page, status >>
        /\ noSearch
        /\ UNCHANGED << fs, siteDir, indexPath, resultsList, findPending >>

onOpenPath(typed) ==
    LET p == trimmedPath(typed)
    IN  /\ lastOp' = "onOpenPath"
        /\ IF p = << >>
             THEN /\ msgBox' = NoBox
                  /\ UNCHANGED << siteDir, indexPath, page, status >>
           ELSE IF isDir(fs, p)
             THEN /\ setSiteDir(p)
                  /\ status' = Msg("Site directory", p)
                  /\ msgBox' = NoBox
                  /\ UNCHANGED page
           ELSE IF isFile(fs, p)
             THEN /\ setSiteDir(absolutePath(p))
                  /\ loadLocal(p)
                  /\ msgBox' = NoBox
           ELSE /\ msgBox' = boxInvalidPath
                /\ UNCHANGED << siteDir, indexPath, page, status >>
        /\ noSearch
        /\ UNCHANGED << fs, resultsList, findPending >>

onOpenFileDialog(picked) ==
    /\ lastOp' = "onOpenFileDialog"
    /\ msgBox' = NoBox
    /\ IF picked # << >>
         THEN /\ setSiteDir(absolutePath(picked))
              /\ loadLocal(picked)
         ELSE UNCHANGED << siteDir, indexPath, page, status >>
    /\ noSearch
    /\ UNCHANGED << fs, resultsList, findPending >>

onOpenDirDialog(d) ==
    /\ lastOp' = "onOpenDirDialog"
    /\ IF d # << >>
         THEN /\ setSiteDir(d)
              /\ IF exists(fs, indexOf(fs, d))
                   THEN loadLocal(indexOf(fs, d)) /\ msgBox' = NoBox
                   ELSE /\ status' = Msg("Site directory", d)
                        /\ msgBox' = boxNoIndex
                        /\ UNCHANGED page
         ELSE /\ msgBox' = NoBox
              /\ UNCHANGED << siteDir, indexPath, page, status >>
    /\ noSearch
    /\ UNCHANGED << fs, resultsList, findPending >>

\* The list item onSearch makes of a matching file.
itemOf(fi) == [text |-> << fileName(fi), fi >>, data |-> fi]

\* The loop left at the first file that cannot be opened (break).
RECURSIVE matchesInBreak(_, _, _)
matchesInBreak(f, found, term) ==
    IF found = << >> THEN << >>
    ELSE IF ~canOpen(f, Head(found)) THEN << >>
    ELSE IF contains(readAll(f, Head(found)), term, FALSE)
         THEN << itemOf(Head(found)) >> \o matchesInBreak(f, Tail(found), term)
         ELSE matchesInBreak(f, Tail(found), term)

\* The loop of onSearch over the finder's output: the items it adds.
RECURSIVE matchesIn(_, _, _)
matchesIn(f, found, term) ==
    IF found = << >> THEN << >>
    ELSE IF ~canOpen(f, Head(found)) THEN matchesIn(f, Tail(found), term)
    ELSE IF contains(readAll(f, Head(found)), term, FALSE)
         THEN << itemOf(Head(found)) >> \o matchesIn(f, Tail(found), term)
         ELSE matchesIn(f, Tail(found), term)

\* The files that loop opens and reads.
readsOf(f, found) == SelectSeq(found, LAMBDA fi : canOpen(f, fi))

\* Every value the inputs can give siteDir.
SiteRoots ==
    { << nBook >> } \cup DirPicks
        \cup { trimmedPath(p) : p \in PathInputs }
        \cup { absolutePath(trimmedPath(p)) : p \in PathInputs \ { << tSpace >> } }
        \cup { absolutePath(p) : p \in FilePicks }

\* files = recursiveFindHtml(siteDir): the finder reads the file system and
\* its argument only, so its value is computed once for each of them.
finderOutput ==
    [f \in FileSystems |-> [d \in SiteRoots |-> recursiveFindHtml(f, d)]]

\* The flag onSearch passes to QWebEnginePage::findText.
findFlags == { "FindCaseSensitively" }

\* The listing of the site root alone that onSearch makes first is
\* overwritten by the finder's output before it is read; the findText call
\* with an empty string only clears the previous highlight.
onSearch(typed, sc) ==
    LET term == trimmed(typed)
    IN  /\ lastOp' = "onSearch"
        /\ searchText' = typed
        /\ scope' = sc
        /\ msgBox' = NoBox
        /\ IF term = << >>
             THEN /\ files' = << >>
                  /\ readLog' = << >>
                  /\ UNCHANGED << resultsList, status, findPending >>
           ELSE IF sc = ScopeCurrent
             THEN /\ Len(findPending) < MaxPending
                  /\ resultsList' = << >>
                  /\ findPending' = Append(findPending, [term |-> term, flags |-> findFlags])
                  /\ files' = << >>
                  /\ readLog' = << >>
                  /\ UNCHANGED status
           ELSE /\ files' = finderOutput[fs][siteDir]
                /\ readLog' = readsOf(fs, files')
                /\ resultsList' = matchesIn(fs, files', term)
                /\ status' = IF resultsList' = << >>
                               THEN Msg("No matches in site directory", term)
                               ELSE Msg("Search complete", << >>)
                /\ UNCHANGED findPending
        /\ UNCHANGED << fs, siteDir, indexPath, page >>

\* The text of the page the web view shows.
pageText(f, p) == IF p # << >> /\ canOpen(f, p) THEN readAll(f, p) ELSE << >>

\* The callback onSearch hands to findText, run with the engine's answer.
onFindResult ==
    /\ findPending # << >>
    /\ lastOp' = "onFindResult"
    /\ LET req   == Head(findPending)
           found == contains(pageText(fs, page), req.term,
                             "FindCaseSensitively" \in req.flags)
       IN  status' = IF found THEN Msg("Found on page", req.term)
                     ELSE Msg("No matches on current page", req.term)
    /\ findPending' = Tail(findPending)
    /\ msgBox' = NoBox
    /\ noSearch
    /\ UNCHANGED << fs, siteDir, indexPath, resultsList, page >>

onResultActivated(i) ==
    /\ lastOp' = "onResultActivated"
    /\ msgBox' = NoBox
    /\ IF resultsList[i].data # << >>
         THEN loadLocal(resultsList[i].data)
         ELSE UNCHANGED << page, status >>
    /\ noSearch
    /\ UNCHANGED << fs, siteDir, indexPath, resultsList, findPending >>

Next ==
    \/ onHome
    \/ \E typed \in PathInputs : onOpenPath(typed)
    \/ \E picked \in { << >> } \cup { p \in FilePicks : isFile(fs, p) } :
           onOpenFileDialog(picked)
    \/ \E d \in { << >> } \cup { p \in DirPicks : isDir(fs, p) } :
           onOpenDirDialog(d)
    \/ \E typed \in SearchInputs, sc \in { ScopeCurrent, ScopeFolder } :
           onSearch(typed, sc)
    \/ onFindResult
    \/ \E i \in 1..Len(resultsList) : onResultActivated(i)

Spec == Init /\ [][Next]_vars

-----------------------------------------------------------------------
(* What the properties below are stated in *)

Range(seq) == { seq[i] : i \in 1..Len(seq) }

\* Two characters that are the same letter.
CasePairs ==
    { << "A", "a" >>, << "B", "b" >>, << "C", "c" >>, << "H", "h" >>,
      << "L", "l" >>, << "M", "m" >>, << "T", "t" >> }

SameLetter(c, d) == c = d \/ << c, d >> \in CasePairs \/ << d, c >> \in CasePairs

\* word occurs in text, letter case apart.
OccursIn(text, word) ==
    \E i \in 1..(Len(text) - Len(word) + 1) :
        \A k \in 1..Len(word) : SameLetter(text[i + k - 1], word[k])

\* A text of blanks only.
IsBlank(text) == \A i \in 1..Len(text) : text[i] = " "

\* The text without the blanks around it.
Core(text) ==
    CHOOSE w \in { SubSeq(text, i, j) : i \in 1..(Len(text) + 1), j \in 0..Len(text) } :
        /\ w # << >> => w[1] # " " /\ w[Len(w)] # " "
        /\ \E a, b \in 0..Len(text) :
               /\ a + Len(w) + b = Len(text)
               /\ SubSeq(text, a + 1, a + Len(w)) = w
               /\ \A i \in (1..a) \cup ((Len(text) - b + 1)..Len(text)) : text[i] = " "

\* The path an entry has by its parent directories.
RECURSIVE RealPath(_, _)
RealPath(f, n) == IF n = 1 THEN << >> ELSE RealPath(f, f[n].parent) \o << f[n].name >>

IsPrefix(a, b) == Len(a) <= Len(b) /\ SubSeq(b, 1, Len(a)) = a

\* A name that ends in .html or .htm, letter case apart.
EndsIn(nm, suffix) ==
    /\ Len(nm) >= Len(suffix)
    /\ \A k \in 1..Len(suffix) : SameLetter(nm[Len(nm) - Len(suffix) + k], suffix[k])

HtmlName(nm) ==
    EndsIn(nm, << ".", "h", "t", "m", "l" >>) \/ EndsIn(nm, << ".", "h", "t", "m" >>)

\* The regular HTML files of the tree rooted at root.
HtmlFilesUnder(f, root) ==
    { n \in DOMAIN f :
        /\ f[n].kind = "file"
        /\ HtmlName(f[n].name)
        /\ IsPrefix(root, RealPath(f, n))
        /\ \E d \in DOMAIN f : f[d].kind = "dir" /\ RealPath(f, d) = root }

\* The entry a path names: the file that is read when the path is opened.
Entry(path) == stat(fs, path)

Readable(path) == \E n \in Entry(path) : fs[n].kind = "file" /\ fs[n].readable

TextOf(path) == fs[CHOOSE n \in Entry(path) : TRUE].text

\* A file the folder search must list.
Matching(path) == Readable(path) /\ OccursIn(TextOf(path), Core(searchText))

ListedAt(path) == { k \in 1..Len(resultsList) : resultsList[k].data = path }

DirOf(path) == SubSeq(path, 1, Len(path) - 1)

\* a can be had from b by leaving elements out.
RECURSIVE IsSubsequence(_, _)
IsSubsequence(a, b) ==
    IF a = << >> THEN TRUE
    ELSE IF b = << >> THEN FALSE
    ELSE IF Head(a) = Head(b) THEN IsSubsequence(Tail(a), Tail(b))
    ELSE IsSubsequence(a, Tail(b))

\* onSearch has just run in the folder scope with a term that is not empty.
AfterFolderSearch ==
    lastOp = "onSearch" /\ scope = ScopeFolder /\ ~IsBlank(searchText)

-----------------------------------------------------------------------
(* The properties *)

\* C1: after a folder search the finder's output is exactly the regular
\* files named *.html or *.htm of the tree under the site root, each of them
\* once: as many paths as there are such files, no duplicate, nothing else.
C1_EachHtmlFileOnce ==
    AfterFolderSearch =>
        /\ Len(files) = Cardinality(HtmlFilesUnder(fs, siteDir))
        /\ \A n \in HtmlFilesUnder(fs, siteDir) :
               Cardinality({ i \in 1..Len(files) : Entry(files[i]) = {n} }) = 1
        /\ \A i \in 1..Len(files) : Entry(files[i]) \subseteq HtmlFilesUnder(fs, siteDir)

\* C2: after a folder search with a non-empty trimmed term the results list
\* holds exactly one item for each file of the finder's output that can be
\* read and whose text contains the term, letter case apart, and no other
\* item; the status says "No matches" exactly when the list is empty.
C2_ResultsAreTheMatches ==
    AfterFolderSearch =>
        /\ \A i \in 1..Len(files) :
               Cardinality(ListedAt(files[i])) = IF Matching(files[i]) THEN 1 ELSE 0
        /\ \A k \in 1..Len(resultsList) :
               /\ resultsList[k].data \in Range(files)
               /\ resultsList[k].text = << resultsList[k].data[Len(resultsList[k].data)],
                                          resultsList[k].data >>
        /\ status.msg = "No matches in site directory" <=> resultsList = << >>
        /\ status.msg \in { "No matches in site directory", "Search complete" }

C2_Witness ==
    /\ AfterFolderSearch
    /\ searchText # Core(searchText)
    /\ resultsList # << >>
    /\ \E i \in 1..Len(files) : Readable(files[i]) /\ ~Matching(files[i])

\* C3: a search is case-insensitive in either scope: in the folder scope
\* every readable file whose text holds the term in another letter case is
\* listed, and a find-in-page answer for a term the page's text holds in
\* another letter case is "Found on page".
C3_CaseInsensitiveInBothScopes ==
    /\ AfterFolderSearch =>
           \A i \in 1..Len(files) : Matching(files[i]) => ListedAt(files[i]) # {}
    /\ (lastOp = "onFindResult" /\ OccursIn(pageText(fs, page), status.arg))
           => status.msg = "Found on page"

\* C4: onSearch with an empty or blank search text changes nothing: the
\* results list, the status message, the pending find-in-page requests, the
\* site root and the loaded page stay as they were, no file is read and no
\* message is shown.
C4_BlankSearchIsNoOp ==
    [][(lastOp' = "onSearch" /\ IsBlank(searchText'))
          => /\ UNCHANGED << resultsList, status, findPending, siteDir,
                             indexPath, page, fs >>
             /\ files' = << >>
             /\ readLog' = << >>
             /\ msgBox' = NoBox]_vars

C4_Witness ==
    /\ lastOp = "onSearch"
    /\ searchText # << >>
    /\ IsBlank(searchText)
    /\ resultsList # << >>

\* C5: in a folder search a file that cannot be opened is skipped and the
\* loop goes on: every readable matching file after it in the finder's
\* output is listed, and nothing is reported for the unreadable file.
C5_UnreadableFileSkipped ==
    AfterFolderSearch =>
        /\ \A i, j \in 1..Len(files) :
               (i < j /\ ~Readable(files[i]) /\ Matching(files[j]))
                   => ListedAt(files[j]) # {}
        /\ msgBox = NoBox
        /\ status.msg \in { "No matches in site directory", "Search complete" }
        /\ Range(readLog) = { p \in Range(files) : Readable(p) }

C5_Witness ==
    /\ AfterFolderSearch
    /\ \E i, j \in 1..Len(files) :
           i < j /\ ~Readable(files[i]) /\ Matching(files[j]) /\ ListedAt(files[j]) # {}

\* The unreadable directories of the tree under the site root.
LockedDirs ==
    { u \in DOMAIN fs :
        /\ fs[u].kind = "dir"
        /\ ~fs[u].readable
        /\ IsPrefix(siteDir, RealPath(fs, fs[u].parent)) }

\* The HTML files a listing of readable directory d shows.
ShownIn(d) ==
    { c \in DOMAIN fs :
        /\ fs[c].parent = d
        /\ fs[c].kind = "file"
        /\ HtmlName(fs[c].name)
        /\ fs[c].name[1] # "." }

\* C6: the finder returns nothing when the root does not exist; a directory
\* that cannot be read contributes no path, while the HTML files of its
\* parent and of its readable sibling directories are returned.
C6_MissingRootAndLockedDir ==
    AfterFolderSearch =>
        /\ (\A d \in DOMAIN fs : RealPath(fs, d) # siteDir) => files = << >>
        /\ \A u \in LockedDirs :
               /\ \A i \in 1..Len(files) : ~IsPrefix(RealPath(fs, u), files[i])
               /\ \A c \in ShownIn(fs[u].parent) : RealPath(fs, c) \in Range(files)
               /\ \A sib \in DOMAIN fs :
                      (fs[sib].parent = fs[u].parent /\ fs[sib].kind = "dir"
                           /\ fs[sib].readable /\ fs[sib].name[1] # ".")
                          => \A c \in ShownIn(sib) : RealPath(fs, c) \in Range(files)

C6_Witness ==
    /\ AfterFolderSearch
    /\ \E u \in LockedDirs :
           /\ \E c \in DOMAIN fs : fs[c].parent = u /\ HtmlName(fs[c].name)
           /\ ShownIn(fs[u].parent) # {}
           /\ \E sib \in DOMAIN fs :
                  fs[sib].parent = fs[u].parent /\ fs[sib].kind = "dir"
                      /\ fs[sib].readable /\ ShownIn(sib) # {}

\* C7: no path the finder returns is a symbolic link, and none is reached
\* through a symbolic link: below the site root every name on the way is an
\* entry of its own parent directory that is not a link.
C7_NoSymLinks ==
    AfterFolderSearch =>
        \A i \in 1..Len(files) : \A k \in (Len(siteDir) + 1)..Len(files[i]) :
            \E n \in DOMAIN fs :
                /\ RealPath(fs, n) = SubSeq(files[i], 1, k)
                /\ fs[n].kind # "link"

C9_OnlyTwoConditions ==
    /\ msgBox # NoBox =>
           /\ msgBox.icon = "information"
           /\ msgBox.title \in { "Home not found", "No index file" }
    /\ status.msg \in { "Ready", "Loaded", "Site directory", "Found on page",
                        "Search complete", "No matches on current page",
                        "No matches in site directory" }

\* An HTML file, or a link to one, that a listing of the site root shows.
SiteRootShowsHtml ==
    \E c \in DOMAIN fs :
        /\ fs[c].parent \in Entry(siteDir)
        /\ fs[c].name[1] # "."
        /\ HtmlName(fs[c].name)
        /\ \E t \in Entry(siteDir \o << fs[c].name >>) : fs[t].kind = "file"

SiteRootHasIndex ==
    \E c \in DOMAIN fs :
        fs[c].parent \in Entry(siteDir) /\ fs[c].name \in { nIndex, nIndexHtm }

\* C9 amended: three conditions are told apart.  "No index file found"
\* (onHome, onOpenDirDialog) is an information box, "no matches found"
\* (onSearch) a status message and no box, and "the typed path is neither a
\* file nor a directory" (onOpenPath) a warning box; no handler shows any
\* other box.
C9_ThreeConditions ==
    /\ msgBox \in { NoBox, Box("information", "Home not found"),
                    Box("information", "No index file"),
                    Box("warning", "Invalid path") }
    /\ msgBox.title = "Home not found" =>
           lastOp = "onHome" /\ ~SiteRootHasIndex /\ ~SiteRootShowsHtml
    /\ msgBox.title = "No index file" =>
           lastOp = "onOpenDirDialog" /\ ~SiteRootHasIndex
    /\ msgBox.title = "Invalid path" => lastOp = "onOpenPath"
    /\ lastOp \in { "onSearch", "onFindResult", "onOpenFileDialog" } => msgBox = NoBox
    /\ (AfterFolderSearch /\ resultsList = << >>)
           => status = Msg("No matches in site directory", Core(searchText))

C9_Witness == msgBox = Box("warning", "Invalid path") /\ lastOp = "onOpenPath"

\* C10: a folder search ends with its final status message having read each
\* file of the tree at most once.
C10_EachFileReadAtMostOnce ==
    AfterFolderSearch =>
        /\ status.msg \in { "No matches in site directory", "Search complete" }
        /\ \A i, j \in 1..Len(readLog) :
               Entry(readLog[i]) = Entry(readLog[j]) => i = j

=======================================================================
